---- MODULE Spec2Model ----
(***************************************************************************)
(* PyProject: template-to-command generation pipeline.                     *)
(*                                                                         *)
(* The repository holds two runnable scripts.  main.py is built from the   *)
(* modules Package.py, Extras.py, ProjectTemplate.py, CommandGenerator.py  *)
(* and ProjectManager.py; NewVersion.py is a single file that carries its  *)
(* own copies of Package, CommandGenerator and ProjectManager.  The        *)
(* variable `entry` says which script (or a direct client of the modules)  *)
(* is running.                                                             *)
(*                                                                         *)
(* A command is modelled as the sequence of the fields its f-string        *)
(* joins with single spaces; str(cmd) is the command string itself.        *)
(*                                                                         *)
(* Specifications: SpecGen (generate_all_commands called directly), Spec   *)
(* (both GUI scripts after construction, and a client of the modules),     *)
(* SpecPM (ProjectManager.create_project called by a client), SpecGui (the *)
(* GUI scripts with the selection as the template set it) and SpecStartup  *)
(* (main() constructing MainWindow, then location, check boxes, dry run).  *)
(***************************************************************************)
EXTENDS Integers, Sequences, FiniteSets, TLC

VARIABLES
    gen_args,          \* arguments of the last direct generate_all_commands call
    gen_out,           \* its return value (<<>> before the first call)
    entry,             \* "main.py", "NewVersion.py" or "client"
    app,               \* main() and MainWindow.__init__: position, tools, managers
    template_data,     \* MainWindow.template_data, templates in insertion order
    project_location,  \* MainWindow._project_location
    checkboxes,        \* package check boxes of the options group
    extras_cb,         \* template-file check boxes of the extras group (main.py)
    slot_error,        \* exception that escaped the last button handler, or None
    uv_output,         \* lines of the output pane
    dry_args,          \* selection snapshot of the last completed dry run
    dry_shown,         \* command strings the last dry run appended to the pane
    cp_pc,             \* position inside ProjectManager.create_project
    cp_args,           \* arguments of the running / last create_project call
    commands,          \* local `commands` of create_project
    idx,               \* local `idx` of the for loop
    launched,          \* indices passed to subprocess.run, in launch order
    exits,             \* exit status of each launched command
    captured,          \* stdout and stderr captured from each exited command
    messages,          \* <<step, message>> pairs handed to progress_callback
    cb_returns,        \* <<step, value>>: what each "Executing" callback returned
    canceled,          \* QProgressDialog.wasCanceled()
    result,            \* outcome of create_project: None, "True", "False" or an exception
    disk,              \* commands whose process exited with status 0 (their effects on disk)
    main_py,           \* <project_path>/main.py: None, or its mode bit and lines
    pyproject_toml,    \* texts appended to <project_path>/pyproject.toml by the GUI
    runs               \* number of dry runs and create_project invocations so far

vars == <<gen_args, gen_out, entry, app, template_data, project_location, checkboxes,
          extras_cb, slot_error, uv_output, dry_args, dry_shown, cp_pc, cp_args,
          commands, idx, launched, exits, captured, messages, cb_returns, canceled, result,
          disk, main_py, pyproject_toml, runs>>

genVars == <<gen_args, gen_out>>
appVars == <<entry, app, template_data, project_location, checkboxes, extras_cb,
             slot_error, uv_output, dry_args, dry_shown, cp_pc, cp_args, commands,
             idx, launched, exits, captured, messages, cb_returns, canceled, result, disk,
             main_py, pyproject_toml, runs>>

-----------------------------------------------------------------------------
(* Bounds *)
MaxPackages == 2
MaxExtras == 2
MaxRuns == 2

-----------------------------------------------------------------------------
(* Python values *)
None == "<None>"

\* a record-valued variable that has no value yet, or a file that does not exist
Absent == [absent |-> TRUE]

Str(s) == [kind |-> "str", value |-> s]

PackageStatus_ENABLED == [kind |-> "PackageStatus", value |-> "enabled"]
PackageStatus_DISABLED == [kind |-> "PackageStatus", value |-> "disabled"]
ExtrasStatus_ENABLED == [kind |-> "ExtrasStatus", value |-> "enabled"]
ExtrasStatus_DISABLED == [kind |-> "ExtrasStatus", value |-> "disabled"]

\* Python truthiness of an Optional[str]
Truthy(s) == s # None /\ s # ""

Package(name, status, version) ==
    [name |-> name, status |-> status, version |-> version]

Extras(src, dst, status) == [src |-> src, dst |-> dst, status |-> status]

Package_is_enabled_loose(p) == p.status.value = PackageStatus_ENABLED.value
Package_is_enabled(p) == p.status = Str(PackageStatus_ENABLED.value)

Extras_is_enabled_loose(e) == e.status.value = ExtrasStatus_ENABLED.value
Extras_is_enabled(e) == e.status = Str(ExtrasStatus_ENABLED.value)

version_spec_sep(p) ==
    IF Truthy(p.version) THEN p.name \o " " \o p.version ELSE p.name
version_spec(p) ==
    IF Truthy(p.version) THEN p.name \o p.version ELSE p.name

-----------------------------------------------------------------------------
(* CommandGenerator (CommandGenerator.py) *)
uv_executable == "/usr/bin/uv"

generate_init_command(project_config) ==
    << uv_executable, "init", project_config.gen_type,
       "--python", project_config.python_version,
       "--name", project_config.project_name,
       project_config.vcs_option,
       project_config.no_readme,
       project_config.no_workspace,
       project_config.project_path >>

generate_add_command_quoted(package, project_path) ==
    << uv_executable, "add", "'" \o version_spec(package) \o "'",
       "--project", project_path >>
generate_add_command(package, project_path) ==
    IF Truthy(package.version)
    THEN << uv_executable, "add", "'" \o version_spec(package) \o "'",
            "--project", project_path >>
    ELSE << uv_executable, "add", package.name, "--project", project_path >>

generate_extra_command(extra, project_path) ==
    << "cp", "templates/" \o extra.src, project_path \o "/" \o extra.dst >>

\* the two for loops of generate_all_commands
RECURSIVE AddPackageCommands(_, _, _)
AddPackageCommands(cmds, pkgs, project_config) ==
    IF pkgs = <<>> THEN cmds
    ELSE AddPackageCommands(
            IF Package_is_enabled(Head(pkgs))
            THEN Append(cmds, generate_add_command(Head(pkgs), project_config.project_path))
            ELSE cmds,
            Tail(pkgs), project_config)

RECURSIVE AddExtraCommands(_, _, _)
AddExtraCommands(cmds, exs, project_config) ==
    IF exs = <<>> THEN cmds
    ELSE AddExtraCommands(
            IF Extras_is_enabled(Head(exs))
            THEN Append(cmds, generate_extra_command(Head(exs), project_config.project_path))
            ELSE cmds,
            Tail(exs), project_config)

RECURSIVE Reverse(_)
Reverse(s) == IF s = <<>> THEN <<>> ELSE Append(Reverse(Tail(s)), Head(s))

generate_all_commands_no_filter(project_config, enabled_packages, extras) ==
    << generate_init_command(project_config) >>
      \o [i \in 1..Len(enabled_packages) |->
            generate_add_command(enabled_packages[i], project_config.project_path)]
      \o AddExtraCommands(<<>>, extras, project_config)
generate_all_commands_init_last(project_config, enabled_packages, extras) ==
    AddExtraCommands(AddPackageCommands(<<>>, enabled_packages, project_config),
                     extras, project_config)
      \o << generate_init_command(project_config) >>
generate_all_commands_reversed(project_config, enabled_packages, extras) ==
    AddExtraCommands(
        AddPackageCommands(<< generate_init_command(project_config) >>,
                           Reverse(enabled_packages), project_config),
        Reverse(extras), project_config)
generate_all_commands(project_config, enabled_packages, extras) ==
    AddExtraCommands(
        AddPackageCommands(<< generate_init_command(project_config) >>,
                           enabled_packages, project_config),
        extras, project_config)

\* the command string: the fields of the f-string joined by single spaces
RECURSIVE str(_)
str(cmd) ==
    IF Len(cmd) = 0 THEN ""
    ELSE IF Len(cmd) = 1 THEN cmd[1]
    ELSE cmd[1] \o " " \o str(Tail(cmd))

-----------------------------------------------------------------------------
(* Inputs of the direct calls of generate_all_commands *)
ProjectPath == "/tmp/proj/myapp"

ConfigUniverse ==
    { [ project_path |-> ProjectPath, project_name |-> "myapp",
        python_version |-> "3.12", vcs_option |-> "--vcs none",
        no_readme |-> nr, no_workspace |-> "", gen_type |-> "--app",
        no_main |-> "" ] : nr \in {"", "--no-readme"} }

PackageUniverse ==
    { Package("flask", Str("enabled"), ">=1.0"),
      Package("flask", Str("enabled"), None),
      Package("flask", Str("enabled"), ""),
      Package("pytest", Str("enabled"), None),
      Package("pytest", Str("disabled"), None),
      Package("pytest", Str("disabled"), ">=1.0"),
      Package("flask", Str("Enabled"), ">=1.0"),
      Package("pytest", PackageStatus_ENABLED, None) }

ExtrasUniverse ==
    { Extras("a.py", "src/a.py", Str("enabled")),
      Extras("b.py", "b.py", Str("enabled")),
      Extras("a.py", "src/a.py", ExtrasStatus_DISABLED),
      Extras("b.py", "b.py", ExtrasStatus_ENABLED) }

SeqsUpTo(S, n) == UNION { [1..k -> S] : k \in 0..n }

-----------------------------------------------------------------------------
(* main() and MainWindow.__init__ *)

\* a client of the modules: no QApplication, no MainWindow
NoWindow ==
    [ pc |-> "library", which_uv |-> uv_executable, config_file |-> "ok",
      raw |-> <<>>, uv_executable |-> None, command_generator |-> Absent,
      project_manager |-> Absent, error |-> None ]

\* main() has built the QApplication and is about to construct MainWindow:
\* which_uv is what shutil.which("uv") will answer, config_file the state of
\* PyProject.json and raw its document
BeforeConstruction(which_uv, config_file, raw) ==
    [ pc |-> "_find_tools", which_uv |-> which_uv, config_file |-> config_file,
      raw |-> raw, uv_executable |-> None, command_generator |-> Absent,
      project_manager |-> Absent, error |-> None ]

\* __init__ has completed and app.exec() is running
AfterConstruction(raw) ==
    [ pc |-> "running", which_uv |-> uv_executable, config_file |-> "ok",
      raw |-> raw, uv_executable |-> uv_executable,
      command_generator |-> [ uv_executable |-> uv_executable ],
      project_manager |-> [ command_generator |-> [ uv_executable |-> uv_executable ] ],
      error |-> None ]

Running == app.pc = "running"

(* State of the GUI and of create_project before anything has been clicked *)
AppInit(e) ==
    /\ entry = e
    /\ template_data = <<>>
    /\ project_location = None
    /\ checkboxes = <<>>
    /\ extras_cb = <<>>
    /\ slot_error = None
    /\ uv_output = <<>>
    /\ dry_args = Absent
    /\ dry_shown = <<>>
    /\ cp_pc = "idle"
    /\ cp_args = Absent
    /\ commands = <<>>
    /\ idx = 0
    /\ launched = <<>>
    /\ exits = <<>>
    /\ captured = <<>>
    /\ messages = <<>>
    /\ cb_returns = <<>>
    /\ canceled = FALSE
    /\ result = None
    /\ disk = <<>>
    /\ main_py = Absent
    /\ pyproject_toml = <<>>
    /\ runs = 0

(* A client calls CommandGenerator.generate_all_commands directly *)
InitGen ==
    /\ gen_args \in [ project_config : ConfigUniverse,
                      enabled_packages : SeqsUpTo(PackageUniverse, MaxPackages),
                      extras : SeqsUpTo(ExtrasUniverse, MaxExtras) ]
    /\ gen_out = <<>>
    /\ AppInit("client")
    /\ app = NoWindow

Generate ==
    /\ gen_out = <<>>
    /\ gen_out' = generate_all_commands(gen_args.project_config,
                                        gen_args.enabled_packages, gen_args.extras)
    /\ UNCHANGED <<gen_args, appVars>>

NextGen == Generate

SpecGen == InitGen /\ [][NextGen]_vars


-----------------------------------------------------------------------------
(* NewVersion.py carries its own CommandGenerator: no extras, shorter init *)
generate_init_command_NV(project_path, project_name, python_version) ==
    << uv_executable, "init", "--python", python_version,
       "--name", project_name, project_path >>

generate_all_commands_NV(project_config, enabled_packages) ==
    AddPackageCommands(
        << generate_init_command_NV(project_config.project_path,
                                    project_config.project_name,
                                    project_config.python_version) >>,
        enabled_packages, project_config)

-----------------------------------------------------------------------------
(* Template configuration and its parser *)
get(d, k, default) == IF k \in DOMAIN d THEN d[k] ELSE default

WebDoc ==
    << [ name |-> "web",
         data |-> [ packages |-> << <<"flask", "enabled", ">=2.0">>,
                                    <<"pytest", "disabled">> >>,
                    description |-> << "A web app" >>,
                    extras |-> <<>> ] ] >>

EmptyDoc == <<>>

\* templates that leave optional keys out: "cli" has only packages (one entry
\* without version), "bare" is an empty mapping
SparseDoc ==
    << [ name |-> "cli",
         data |-> [ packages |-> << <<"click", "enabled">> >> ] ],
       [ name |-> "bare", data |-> <<>> ] >>

RawDocs == { WebDoc, EmptyDoc, SparseDoc }

ParsePackages(package_data) ==
    [ i \in 1..Len(package_data) |->
        Package(package_data[i][1], Str(package_data[i][2]),
                IF Len(package_data[i]) > 2 THEN package_data[i][3] ELSE None) ]

\* the fields the dataclass ProjectTemplate (ProjectTemplate.py) accepts
ProjectTemplate_fields ==
    { "name", "packages", "description", "extras", "pyproject_extras" }

\* main.py builds each template with the keyword no_main, which the dataclass
\* does not have: the constructor raises TypeError on the first template
_parse_template_data_kwargs ==
    { "name", "packages", "description", "extras", "pyproject_extras", "no_main" }

_parse_template_data_raises(raw_data) ==
    /\ Len(raw_data) > 0
    /\ ~(_parse_template_data_kwargs \subseteq ProjectTemplate_fields)

_parse_template_data(raw_data) ==
    [ i \in 1..Len(raw_data) |->
        LET data == raw_data[i].data
            extras == get(data, "extras", <<>>)
        IN  [ name |-> raw_data[i].name,
              packages |-> ParsePackages(get(data, "packages", <<>>)),
              description |-> get(data, "description", <<>>),
              extras |-> extras,
              pyproject_extras |-> get(extras, "pyproject_extras", None),
              no_main |-> IF get(extras, "no_main", FALSE) = TRUE
                          THEN "--bare" ELSE "" ] ]

_parse_template_data_NV(raw_data) ==
    [ i \in 1..Len(raw_data) |->
        LET data == raw_data[i].data
        IN  [ name |-> raw_data[i].name,
              packages |-> ParsePackages(get(data, "packages", <<>>)),
              description |-> get(data, "description", <<>>),
              extras |-> get(data, "extras", <<>>),
              pyproject_extras |-> get(data, "pyproject_extras", None) ] ]

\* _generate_options: one check box per package of the template
_generate_options(template) ==
    [ i \in 1..Len(template.packages) |->
        [ name |-> template.packages[i].name,
          version |-> IF Truthy(template.packages[i].version)
                      THEN template.packages[i].version ELSE None,
          checked |-> Package_is_enabled(template.packages[i]) ] ]

\* load_json_config: main.py catches every exception of the parse and prints it,
\* leaving template_data = {}; NewVersion.py parses with its own dataclass
load_json_config(e, raw_data) ==
    IF e = "main.py"
    THEN IF _parse_template_data_raises(raw_data)
         THEN <<>> ELSE _parse_template_data(raw_data)
    ELSE _parse_template_data_NV(raw_data)

-----------------------------------------------------------------------------
(* The application: state after MainWindow.__init__ *)
Location == "/tmp/proj"
ProjectName == "myapp"
PythonVersion == "3.12"

NoGenArgs == [ project_config |-> Absent, enabled_packages |-> <<>>, extras |-> <<>> ]

Init ==
    /\ gen_args = NoGenArgs
    /\ gen_out = <<>>
    /\ entry \in { "main.py", "NewVersion.py", "client" }
    /\ \E raw \in RawDocs :
         /\ app = IF entry = "client" THEN NoWindow ELSE AfterConstruction(raw)
         /\ template_data = IF entry = "client" THEN <<>>
                            ELSE load_json_config(entry, raw)
         /\ checkboxes = IF entry = "client" \/ load_json_config(entry, raw) = <<>>
                         THEN <<>>
                         ELSE _generate_options(load_json_config(entry, raw)[1])
    /\ project_location = None
    /\ extras_cb = <<>>
    /\ slot_error = None
    /\ uv_output = <<>>
    /\ dry_args = Absent
    /\ dry_shown = <<>>
    /\ cp_pc = "idle"
    /\ cp_args = Absent
    /\ commands = <<>>
    /\ idx = 0
    /\ launched = <<>>
    /\ exits = <<>>
    /\ captured = <<>>
    /\ messages = <<>>
    /\ cb_returns = <<>>
    /\ canceled = FALSE
    /\ result = None
    /\ disk = <<>>
    /\ main_py = Absent
    /\ pyproject_toml = <<>>
    /\ runs = 0

IsGui == entry \in { "main.py", "NewVersion.py" }
is_project_active_always == TRUE
is_project_active == project_location # None

cpVars == <<cp_pc, cp_args, commands, idx, launched, exits, captured, messages, cb_returns,
            canceled, result>>

\* _select_location: the user picks a directory in the file dialog
_select_location ==
    /\ IsGui /\ Running /\ cp_pc = "idle"
    /\ project_location = None
    /\ project_location' = Location
    /\ UNCHANGED <<genVars, entry, app, template_data, checkboxes, extras_cb, slot_error,
                   uv_output, dry_args, dry_shown, cpVars, disk, main_py,
                   pyproject_toml, runs>>

\* the user ticks or unticks a package check box
ToggleCheckbox ==
    /\ IsGui /\ Running /\ cp_pc = "idle" /\ runs < MaxRuns
    /\ \E i \in 1..Len(checkboxes) :
          checkboxes' = [checkboxes EXCEPT ![i].checked = ~checkboxes[i].checked]
    /\ UNCHANGED <<genVars, entry, app, template_data, project_location, extras_cb,
                   slot_error, uv_output, dry_args, dry_shown, cpVars, disk, main_py,
                   pyproject_toml, runs>>

_get_enabled_packages ==
    LET on == SelectSeq(checkboxes, LAMBDA cb : cb.checked)
    IN  [ i \in 1..Len(on) |->
            Package(on[i].name, Str(PackageStatus_ENABLED.value), on[i].version) ]

_get_enabled_extras ==
    LET on == SelectSeq(extras_cb, LAMBDA cb : cb.checked)
    IN  [ i \in 1..Len(on) |->
            Extras(on[i].src, on[i].dst, Str(ExtrasStatus_ENABLED.value)) ]

\* the template the combo box points at: the first one, None when there is none
CurrentTemplate == IF template_data = <<>> THEN Absent ELSE template_data[1]

\* _get_project_config: main.py reads template.no_main and raises AttributeError
\* when template_data.get(...) returned None
_get_project_config_raises == entry = "main.py" /\ CurrentTemplate = Absent

_get_project_config ==
    IF entry = "main.py"
    THEN      [ project_path |-> project_location \o "/" \o ProjectName,
                project_name |-> ProjectName,
                python_version |-> PythonVersion,
                vcs_option |-> "--vcs none",
                no_readme |-> "",
                no_workspace |-> "",
                gen_type |-> "--app",
                no_main |-> CurrentTemplate.no_main ]
    ELSE [ project_path |-> project_location \o "/" \o ProjectName,
           project_name |-> ProjectName,
           python_version |-> PythonVersion ]

\* the lines _dry_run appends to the pane
DryRunLines(cmds) ==
    << "Dry run - Commands that would be executed:\n" >>
      \o [ i \in 1..Len(cmds) |-> "  " \o str(cmds[i]) ]
      \o << "\n" >>

\* _dry_run
_dry_run ==
    /\ IsGui /\ Running /\ cp_pc = "idle" /\ runs < MaxRuns
    /\ runs' = runs + 1
    /\ IF ~is_project_active
       THEN UNCHANGED <<slot_error, uv_output, dry_args, dry_shown>>
       ELSE LET cleared == IF entry = "main.py" THEN <<>> ELSE uv_output
                enabled_packages == _get_enabled_packages
                project_config == _get_project_config
                extra_files == _get_enabled_extras
                cmds == IF entry = "main.py"
                        THEN generate_all_commands(project_config, enabled_packages,
                                                   extra_files)
                        ELSE generate_all_commands_NV(project_config, enabled_packages)
            IN  IF _get_project_config_raises
                THEN /\ slot_error' = "AttributeError"
                     /\ uv_output' = cleared
                     /\ UNCHANGED <<dry_args, dry_shown>>
                ELSE /\ slot_error' = None
                     /\ uv_output' = cleared \o DryRunLines(cmds)
                     /\ dry_args' = [ project_config |-> project_config,
                                      enabled_packages |-> enabled_packages,
                                      extras |-> IF entry = "main.py"
                                                 THEN extra_files ELSE <<>> ]
                     /\ dry_shown' = [ i \in 1..Len(cmds) |-> str(cmds[i]) ]
    /\ UNCHANGED <<genVars, entry, app, template_data, project_location, checkboxes,
                   extras_cb, cpVars, disk, main_py, pyproject_toml>>


-----------------------------------------------------------------------------
(* ProjectManager.create_project *)

\* what the external process of a command can report back
ProcOutcomes ==
    { [ code |-> 0, stdout |-> "", stderr |-> "" ],
      [ code |-> 0, stdout |-> "out", stderr |-> "warn" ],
      [ code |-> 1, stdout |-> "", stderr |-> "" ],
      [ code |-> 1, stdout |-> "out", stderr |-> "err" ] }

ClientPackages ==
    { Package("flask", Str("enabled"), ">=1.0"),
      Package("pytest", Str("disabled"), None) }

ClientConfig == CHOOSE c \in ConfigUniverse : c.no_readme = ""

\* parameters generate_all_commands takes besides self: CommandGenerator.py
\* (project_config, enabled_packages, extras), NewVersion.py
\* (project_config, enabled_packages)
generate_all_commands_params(generator) ==
    IF generator = "CommandGenerator.py" THEN 3 ELSE 2

\* line 24 passes two arguments: TypeError unless the generator takes two
GenerateCallRaises(generator) == generate_all_commands_params(generator) # 2

\* enumerate(commands): the index the for loop starts with
enumerate_start_resumed(cmds) == IF idx < Len(cmds) THEN idx ELSE 0
enumerate_start(cmds) == 0

\* entry of create_project up to the end of line 24
EnterCreateProject(project_config, enabled_packages, generator, has_callback) ==
    /\ cp_args' = [ project_config |-> project_config,
                    enabled_packages |-> enabled_packages,
                    generator |-> generator,
                    has_callback |-> has_callback ]
    /\ launched' = <<>>
    /\ exits' = <<>>
    /\ captured' = <<>>
    /\ messages' = <<>>
    /\ cb_returns' = <<>>
    /\ canceled' = FALSE
    /\ IF GenerateCallRaises(generator)
       THEN /\ commands' = <<>>
            /\ result' = "TypeError"
            /\ cp_pc' = "idle"
       ELSE /\ commands' = generate_all_commands_NV(project_config, enabled_packages)
            /\ result' = None
            /\ cp_pc' = "callback"
    /\ idx' = enumerate_start(commands')

\* a client builds ProjectManager(command_generator) and calls create_project
ClientCreateProject ==
    /\ entry = "client" /\ cp_pc = "idle" /\ runs < MaxRuns
    /\ runs' = runs + 1
    /\ \E enabled_packages \in SeqsUpTo(ClientPackages, MaxPackages),
          generator \in { "CommandGenerator.py", "NewVersion.py" },
          has_callback \in BOOLEAN :
          EnterCreateProject(ClientConfig, enabled_packages, generator, has_callback)
    /\ UNCHANGED <<genVars, entry, app, template_data, project_location, checkboxes,
                   extras_cb, slot_error, uv_output, dry_args, dry_shown, disk,
                   main_py, pyproject_toml>>

\* a client calls generate_all_commands of CommandGenerator.py, as _dry_run does
ClientGenerate ==
    /\ entry = "client" /\ cp_pc = "idle" /\ runs < MaxRuns
    /\ runs' = runs + 1
    /\ \E enabled_packages \in SeqsUpTo(ClientPackages, MaxPackages),
          extras \in SeqsUpTo({ Extras("a.py", "src/a.py", Str("enabled")) }, 1) :
          /\ gen_args' = [ project_config |-> ClientConfig,
                           enabled_packages |-> enabled_packages,
                           extras |-> extras ]
          /\ gen_out' = generate_all_commands(ClientConfig, enabled_packages, extras)
    /\ UNCHANGED <<entry, app, template_data, project_location, checkboxes, extras_cb,
                   slot_error, uv_output, dry_args, dry_shown, cpVars, disk, main_py,
                   pyproject_toml>>


\* _create_project up to the call of project_manager.create_project
_create_project ==
    /\ IsGui /\ Running /\ cp_pc = "idle" /\ runs < MaxRuns
    /\ runs' = runs + 1
    /\ IF ~is_project_active
       THEN UNCHANGED <<slot_error, uv_output, cpVars>>
       ELSE LET cleared == IF entry = "main.py" THEN <<>> ELSE uv_output
            IN  /\ uv_output' = cleared
                /\ IF _get_project_config_raises
                   THEN /\ slot_error' = "AttributeError"
                        /\ UNCHANGED cpVars
                   ELSE IF entry = "main.py"
                   THEN \* four positional arguments for (project_config,
                        \* enabled_packages, progress_callback=None)
                        /\ slot_error' = "TypeError"
                        /\ UNCHANGED cpVars
                   ELSE /\ slot_error' = None
                        /\ EnterCreateProject(_get_project_config,
                                              _get_enabled_packages,
                                              "NewVersion.py", TRUE)
    /\ UNCHANGED <<genVars, entry, app, template_data, project_location, checkboxes,
                   extras_cb, dry_args, dry_shown, disk, main_py, pyproject_toml>>

\* progress_callback(step, message) for each message of msgs, in order: the GUI
\* callback appends the message to the pane and processes pending events, among
\* them a click on Cancel
DeliverMessages(msgs, click) ==
    /\ IF cp_args.has_callback
       THEN messages' = messages \o [ i \in 1..Len(msgs) |-> <<idx, msgs[i]>> ]
       ELSE UNCHANGED messages
    /\ IF cp_args.has_callback /\ IsGui
       THEN /\ uv_output' = uv_output \o msgs
            /\ canceled' = (canceled \/ click)
       ELSE UNCHANGED <<uv_output, canceled>>

\* who answers the callback: the GUI's callback answers not wasCanceled() after
\* processing a possible click, a client's callback answers what it likes, and
\* without a callback there is nothing to answer
Clicks == IF IsGui /\ cp_args.has_callback /\ ~canceled THEN BOOLEAN ELSE { FALSE }
ClientAnswers == IF ~IsGui /\ cp_args.has_callback THEN BOOLEAN ELSE { TRUE }

\* enumerate(commands): the command the loop holds at index i
CommandAt_reversed(cmds, i) == cmds[Len(cmds) - i]
CommandAt(cmds, i) == cmds[i + 1]

\* line 28: the message of the callback before the command
ExecutingMessage_bare(cmd) == str(cmd)
ExecutingMessage(cmd) == "Executing: " \o str(cmd)

\* lines 27-28: the callback before the command; its return value is dropped
CP_Executing ==
    /\ cp_pc = "callback"
    /\ \E click \in Clicks, client_ret \in ClientAnswers :
          /\ DeliverMessages(<< ExecutingMessage(CommandAt(commands, idx)) >>,
                             click)
          /\ IF cp_args.has_callback
             THEN cb_returns' = Append(cb_returns,
                     << idx, IF IsGui THEN ~(canceled \/ click) ELSE client_ret >>)
             ELSE UNCHANGED cb_returns
    /\ cp_pc' = "launch"
    /\ UNCHANGED <<genVars, entry, app, template_data, project_location, checkboxes,
                   extras_cb, slot_error, dry_args, dry_shown, cp_args, commands, idx,
                   launched, exits, captured, result, disk, main_py, pyproject_toml, runs>>

\* line 31: subprocess.run starts the shell command and blocks
CP_Launch ==
    /\ cp_pc = "launch"
    /\ launched' = Append(launched, idx)
    /\ cp_pc' = "running"
    /\ UNCHANGED <<genVars, entry, app, template_data, project_location, checkboxes,
                   extras_cb, slot_error, uv_output, dry_args, dry_shown, cp_args,
                   commands, idx, exits, captured, messages, cb_returns, canceled, result, disk,
                   main_py, pyproject_toml, runs>>

NonEmpty(msgs) == SelectSeq(msgs, LAMBDA m : m # "")

ErrorMessage(cmd, code) ==
    "Error executing command: Command '" \o str(cmd)
        \o "' returned non-zero exit status " \o ToString(code) \o "."

\* lines 32-35: stdout always, stderr when it is not empty
SuccessMessages_both(proc) == << proc.stdout, proc.stderr >>
SuccessMessages(proc) == << proc.stdout >> \o NonEmpty(<< proc.stderr >>)

\* lines 37-44: error_msg, then e.stdout and e.stderr when they are not empty
FailureMessages_echoed(cmd, proc) ==
    << ErrorMessage(cmd, proc.code), ErrorMessage(cmd, proc.code) >>
        \o NonEmpty(<< proc.stdout, proc.stderr >>)
FailureMessages(cmd, proc) ==
    << ErrorMessage(cmd, proc.code) >> \o NonEmpty(<< proc.stdout, proc.stderr >>)

\* where control goes when create_project returns: back into the GUI handler,
\* or back to the client
AfterReturn == IF IsGui THEN "returned" ELSE "idle"

\* a successful `uv init` may leave an entry-point file main.py behind
MayCreate == IF idx = 0 /\ main_py = Absent THEN BOOLEAN ELSE { FALSE }

InitLeaves(creates) ==
    IF creates
    THEN [ executable |-> FALSE, content |-> << "def main(): ..." >> ]
    ELSE main_py

\* subprocess.run(..., check=True) raises CalledProcessError on a non-zero status
CalledProcessError_unchecked(code) == FALSE
CalledProcessError(code) == code # 0

\* the for loop has another command after the one at index i
HasNext_return_in_loop(i, cmds) == FALSE
HasNext(i, cmds) == i + 1 < Len(cmds)

\* lines 31-47: the process exits; its output goes to the callback
CP_Exit ==
    /\ cp_pc = "running"
    /\ \E proc \in ProcOutcomes, click \in Clicks, creates \in MayCreate :
          /\ exits' = Append(exits, proc.code)
          /\ captured' = Append(captured, [ stdout |-> proc.stdout,
                                              stderr |-> proc.stderr ])
          /\ IF ~CalledProcessError(proc.code)
             THEN /\ disk' = Append(disk, CommandAt(commands, idx))
                  /\ main_py' = InitLeaves(creates)
                  /\ DeliverMessages(SuccessMessages(proc), click)
                  /\ IF HasNext(idx, commands)
                     THEN /\ idx' = idx + 1
                          /\ cp_pc' = "callback"
                          /\ UNCHANGED result
                     ELSE /\ result' = "True"
                          /\ cp_pc' = AfterReturn
                          /\ UNCHANGED idx
             ELSE /\ ~creates
                  /\ DeliverMessages(FailureMessages(CommandAt(commands, idx), proc),
                                     click)
                  /\ result' = "False"
                  /\ cp_pc' = AfterReturn
                  /\ UNCHANGED <<idx, disk, main_py>>
    /\ UNCHANGED <<genVars, entry, app, template_data, project_location, checkboxes,
                   extras_cb, slot_error, dry_args, dry_shown, cp_args, commands,
                   launched, cb_returns, pyproject_toml, runs>>

Shebang == "#!/usr/bin/env -S uv run --script"

\* _make_script_executable: chmod +x, then prepend the shebang line
_make_script_executable_guarded(file) ==
    [ executable |-> TRUE,
      content |-> IF file.content # <<>> /\ Head(file.content) = Shebang
                  THEN file.content
                  ELSE << Shebang >> \o file.content ]
_make_script_executable_appending(file) ==
    [ executable |-> TRUE, content |-> file.content \o << Shebang >> ]
_make_script_executable(file) ==
    [ executable |-> TRUE, content |-> << Shebang >> \o file.content ]

\* _make_main_runnable
_make_main_runnable == IF main_py # Absent THEN _make_script_executable(main_py) ELSE main_py

\* the text of the TomlText editor, if the template made one
TomlText ==
    IF CurrentTemplate # Absent /\ entry = "main.py"
       /\ CurrentTemplate.pyproject_extras # None
    THEN << CurrentTemplate.pyproject_extras >> ELSE <<>>

\* _create_project after create_project has returned
_create_project_finish ==
    /\ IsGui /\ cp_pc = "returned"
    /\ pyproject_toml' = IF entry = "main.py" THEN pyproject_toml \o TomlText
                         ELSE pyproject_toml
    /\ IF result = "True"
       THEN /\ uv_output' = Append(uv_output, "Project created successfully!\n\n")
            /\ main_py' = _make_main_runnable
       ELSE /\ uv_output' = Append(uv_output, "Project creation failed.\n\n")
            /\ UNCHANGED main_py
    /\ cp_pc' = "idle"
    /\ UNCHANGED <<genVars, entry, app, template_data, project_location, checkboxes,
                   extras_cb, slot_error, dry_args, dry_shown, cp_args, commands, idx,
                   launched, exits, captured, messages, cb_returns, canceled, result, disk, runs>>

Next ==
    \/ _select_location
    \/ ToggleCheckbox
    \/ _dry_run
    \/ _create_project
    \/ ClientGenerate
    \/ ClientCreateProject
    \/ CP_Executing
    \/ CP_Launch
    \/ CP_Exit
    \/ _create_project_finish

Spec == Init /\ [][Next]_vars

(* ProjectManager on its own: a client constructs it and calls create_project *)
InitPM ==
    /\ gen_args = NoGenArgs
    /\ gen_out = <<>>
    /\ AppInit("client")
    /\ app = NoWindow

NextPM ==
    \/ ClientCreateProject
    \/ CP_Executing
    \/ CP_Launch
    \/ CP_Exit

SpecPM == InitPM /\ [][NextPM]_vars

(* The two GUI scripts with the check boxes left as the template set them *)
InitGui == Init /\ IsGui

NextGui ==
    \/ _select_location
    \/ _dry_run
    \/ _create_project
    \/ CP_Executing
    \/ CP_Launch
    \/ CP_Exit
    \/ _create_project_finish

SpecGui == InitGui /\ [][NextGui]_vars

-----------------------------------------------------------------------------
(* Startup: main() constructs MainWindow, whose __init__ runs _setup_window,  *)
(* _find_tools, _setup_managers, load_ui, load_json_config,                    *)
(* _get_python_versions and _connect_buttons in that order                     *)

\* what construction leaves alone
afterInitVars == <<genVars, entry, project_location, extras_cb, slot_error, uv_output,
                   dry_args, dry_shown, cpVars, disk, main_py, pyproject_toml, runs>>

\* main(): except Exception -> logger.error, sys.exit(1)
main_except(error) == [ app EXCEPT !.pc = "exited", !.error = error ]

\* _find_tools: `if not self.uv_executable: raise RuntimeError`
_find_tools_raises_never(which) == FALSE
_find_tools_raises(which) == ~Truthy(which)

_find_tools ==
    /\ IsGui /\ app.pc = "_find_tools"
    /\ app' = IF _find_tools_raises(app.which_uv)
              THEN [ main_except("RuntimeError") EXCEPT !.uv_executable = app.which_uv ]
              ELSE [ app EXCEPT !.uv_executable = app.which_uv,
                                !.pc = "_setup_managers" ]
    /\ UNCHANGED <<afterInitVars, template_data, checkboxes>>

\* _setup_managers, then load_ui (the .ui file is taken to load)
_setup_managers ==
    /\ IsGui /\ app.pc = "_setup_managers"
    /\ LET command_generator == [ uv_executable |-> app.uv_executable ]
       IN  app' = [ app EXCEPT !.command_generator = command_generator,
                               !.project_manager =
                                   [ command_generator |-> command_generator ],
                               !.pc = "load_json_config" ]
    /\ UNCHANGED <<afterInitVars, template_data, checkboxes>>

\* the exception opening or decoding the configuration file raises
ConfigError(config_file) ==
    IF config_file = "missing" THEN "FileNotFoundError" ELSE "JSONDecodeError"

\* main.py: `except Exception as e: print(...)`; NewVersion.py: both except
\* clauses end in a bare `raise`
load_json_config_raises(e, config_file) ==
    e = "NewVersion.py" /\ config_file # "ok"

\* load_json_config as __init__ calls it, with _setup_current_template(0)
MainWindow_load_json_config ==
    /\ IsGui /\ app.pc = "load_json_config"
    /\ IF app.config_file # "ok"
       THEN /\ app' = IF load_json_config_raises(entry, app.config_file)
                      THEN main_except(ConfigError(app.config_file))
                      ELSE [ app EXCEPT !.pc = "exec" ]
            /\ UNCHANGED <<template_data, checkboxes>>
       ELSE /\ template_data' = load_json_config(entry, app.raw)
            /\ checkboxes' = IF load_json_config(entry, app.raw) = <<>>
                             THEN <<>>
                             ELSE _generate_options(load_json_config(entry, app.raw)[1])
            /\ app' = [ app EXCEPT !.pc = "exec" ]
    /\ UNCHANGED afterInitVars

\* _get_python_versions, _connect_buttons, then main(): window.show(), app.exec()
main_exec ==
    /\ IsGui /\ app.pc = "exec"
    /\ app' = [ app EXCEPT !.pc = "running" ]
    /\ UNCHANGED <<afterInitVars, template_data, checkboxes>>

InitStartup ==
    /\ gen_args = NoGenArgs
    /\ gen_out = <<>>
    /\ \E e \in { "main.py", "NewVersion.py" } : AppInit(e)
    /\ \E which_uv \in { None, uv_executable },
          config_file \in { "ok", "missing", "invalid" } :
          \E raw \in IF config_file = "ok" THEN RawDocs ELSE { <<>> } :
             app = BeforeConstruction(which_uv, config_file, raw)

NextStartup ==
    \/ _find_tools
    \/ _setup_managers
    \/ MainWindow_load_json_config
    \/ main_exec
    \/ _select_location
    \/ ToggleCheckbox
    \/ _dry_run

SpecStartup == InitStartup /\ [][NextStartup]_vars


-----------------------------------------------------------------------------
(* Properties of generate_all_commands (checked under SpecGen) *)

\* how a reader of the command tells its kind: "<tool> init ...", "<tool> add ...", "cp ..."
IsInitCmd(c) == Len(c) >= 2 /\ c[1] = uv_executable /\ c[2] = "init"
IsAddCmd(c) == Len(c) >= 2 /\ c[1] = uv_executable /\ c[2] = "add"
IsCopyCmd(c) == Len(c) >= 1 /\ c[1] = "cp"

Generated == gen_out # <<>>
InPackages == gen_args.enabled_packages
InExtras == gen_args.extras
InPath == gen_args.project_config.project_path

EnabledStatus(x) == x.status = Str("enabled")
VersionPresent(p) == p.version # None /\ p.version # ""

EnabledPackageIdx == { i \in 1..Len(InPackages) : EnabledStatus(InPackages[i]) }
EnabledExtraIdx == { i \in 1..Len(InExtras) : EnabledStatus(InExtras[i]) }

\* position in the output of the add command of the enabled package at input index i
AddPos(i) == 1 + Cardinality({ j \in EnabledPackageIdx : j <= i })

\* C1: the init command is at index 0 (the first element) and nowhere else, and
\* every add-dependency command has a smaller index than every copy command.
C1_InitFirstAddBeforeCopy ==
    Generated =>
        /\ IsInitCmd(gen_out[1])
        /\ \A i \in 2..Len(gen_out) : ~IsInitCmd(gen_out[i])
        /\ \A i, j \in 1..Len(gen_out) :
              (IsAddCmd(gen_out[i]) /\ IsCopyCmd(gen_out[j])) => i < j

C1_Witness ==
    /\ Generated
    /\ \E i, j \in 1..Len(gen_out) : IsAddCmd(gen_out[i]) /\ IsCopyCmd(gen_out[j])

\* C2: the number of commands is 1 + the number of enabled packages + the
\* number of enabled extras of the input (enabled: status is the string "enabled").
C2_CommandCount ==
    Generated =>
        Len(gen_out) = 1 + Cardinality(EnabledPackageIdx) + Cardinality(EnabledExtraIdx)

C2_Witness ==
    /\ Generated
    /\ Cardinality(EnabledPackageIdx) >= 1
    /\ Cardinality(EnabledPackageIdx) < Len(InPackages)
    /\ Cardinality(EnabledExtraIdx) >= 1
    /\ Cardinality(EnabledExtraIdx) < Len(InExtras)

\* the dependency argument expected for package p
DepName(p) == IF VersionPresent(p) THEN "'" \o p.name \o p.version \o "'" ELSE p.name

\* C3: is_enabled is true exactly for the status string "enabled"; a supplied
\* package gets an add command iff it is enabled: every enabled package's name is
\* the dependency of some add command, every add command names an enabled package
\* of the input, and there are as many add commands as enabled packages.
C3_AddIffEnabled ==
    /\ \A p \in PackageUniverse : Package_is_enabled(p) <=> EnabledStatus(p)
    /\ Generated =>
        /\ \A i \in EnabledPackageIdx :
              \E k \in 1..Len(gen_out) :
                  IsAddCmd(gen_out[k]) /\ gen_out[k][3] = DepName(InPackages[i])
        /\ \A k \in 1..Len(gen_out) :
              IsAddCmd(gen_out[k]) =>
                  \E i \in EnabledPackageIdx : gen_out[k][3] = DepName(InPackages[i])
        /\ Cardinality({ k \in 1..Len(gen_out) : IsAddCmd(gen_out[k]) })
              = Cardinality(EnabledPackageIdx)

C3_Witness ==
    /\ Generated
    /\ \E i, j \in 1..Len(InPackages) :
          /\ EnabledStatus(InPackages[i])
          /\ InPackages[j].status = Str("disabled")
          /\ InPackages[i].name # InPackages[j].name
    /\ Cardinality({ k \in 1..Len(gen_out) : IsAddCmd(gen_out[k]) }) = 1

\* C4: an enabled package with a (non-empty) version yields the add command
\* <tool> add '<name><version>' --project <path>: name and version concatenated
\* with no separator, as one single-quoted argument.
C4_VersionedAdd ==
    Generated =>
        \A i \in EnabledPackageIdx :
            VersionPresent(InPackages[i]) =>
                /\ gen_out[AddPos(i)] =
                     << uv_executable, "add",
                        "'" \o InPackages[i].name \o InPackages[i].version \o "'",
                        "--project", InPath >>
                /\ (InPackages[i].name = "flask" /\ InPackages[i].version = ">=1.0") =>
                     str(gen_out[AddPos(i)]) =
                        "/usr/bin/uv add 'flask>=1.0' --project /tmp/proj/myapp"

C4_Witness ==
    /\ Generated
    /\ \E i \in EnabledPackageIdx :
          /\ InPackages[i].name = "flask"
          /\ InPackages[i].version = ">=1.0"
          /\ gen_out[AddPos(i)][3] = "'flask>=1.0'"

\* C5: an enabled package without a version (None, or the empty string, which
\* Python treats alike) yields <tool> add <name> --project <path>: the bare name,
\* unquoted, nothing appended.
C5_BareAdd ==
    Generated =>
        \A i \in EnabledPackageIdx :
            ~VersionPresent(InPackages[i]) =>
                gen_out[AddPos(i)] =
                    << uv_executable, "add", InPackages[i].name, "--project", InPath >>

C5_Witness ==
    /\ Generated
    /\ \E i \in EnabledPackageIdx :
          InPackages[i].version = None /\ gen_out[AddPos(i)][3] = InPackages[i].name

EnabledOnly(s) == SelectSeq(s, EnabledStatus)

\* C6: the output is the init command, then the add commands of the enabled
\* packages in input order, then the copy commands of the enabled extras in
\* input order.
C6_OrderPreserved ==
    Generated =>
        LET ps == EnabledOnly(InPackages)
            es == EnabledOnly(InExtras)
        IN  /\ Len(gen_out) = 1 + Len(ps) + Len(es)
            /\ \A i \in 1..Len(ps) :
                  /\ IsAddCmd(gen_out[1 + i])
                  /\ gen_out[1 + i][3] = DepName(ps[i])
            /\ \A i \in 1..Len(es) :
                  /\ IsCopyCmd(gen_out[1 + Len(ps) + i])
                  /\ gen_out[1 + Len(ps) + i][2] = "templates/" \o es[i].src
                  /\ gen_out[1 + Len(ps) + i][3] = InPath \o "/" \o es[i].dst

C6_Witness ==
    /\ Generated
    /\ Len(EnabledOnly(InPackages)) = 2
    /\ InPackages[1] # InPackages[2]
    /\ Len(EnabledOnly(InExtras)) = 2
    /\ InExtras[1] # InExtras[2]

\* the copy command expected for extra e
CopyCommand(e) == << "cp", "templates/" \o e.src, InPath \o "/" \o e.dst >>

\* C24: a supplied extra gets a copy command iff it is enabled (its status is
\* the string "enabled"): there are as many copy commands as enabled extras,
\* every enabled extra has its command `cp templates/<src> <project_path>/<dst>`,
\* every copy command is that of an enabled extra of the input, and extras with
\* the default status ExtrasStatus.DISABLED alone yield no copy command.
C24_CopyIffEnabled ==
    Generated =>
        LET copies == SelectSeq(gen_out, IsCopyCmd)
        IN  /\ Len(copies) = Cardinality(EnabledExtraIdx)
            /\ \A i \in EnabledExtraIdx :
                  \E c \in 1..Len(copies) : copies[c] = CopyCommand(InExtras[i])
            /\ \A c \in 1..Len(copies) :
                  \E i \in EnabledExtraIdx : copies[c] = CopyCommand(InExtras[i])
            /\ (\A i \in 1..Len(InExtras) : InExtras[i].status = ExtrasStatus_DISABLED)
                  => copies = <<>>

\* an enabled extra and one with the default status: one copy command
C24_Witness ==
    /\ Generated
    /\ Len(InExtras) = 2
    /\ InExtras[1].status = ExtrasStatus_DISABLED
    /\ InExtras[2] = Extras("b.py", "b.py", Str("enabled"))
    /\ Len(SelectSeq(gen_out, IsCopyCmd)) = 1
    /\ gen_out[Len(gen_out)] = << "cp", "templates/b.py", "/tmp/proj/myapp/b.py" >>

-----------------------------------------------------------------------------
(* Properties of create_project (checked under Spec and SpecPM) *)

Called == cp_args # Absent
Returned == result \in { "True", "False" }
AllIndices(n) == [ i \in 1..n |-> i - 1 ]

\* C7: with identical project config and selections, the command list of the dry
\* run and the command list create_project works on are the same list.  In the
\* GUI the dry run is _dry_run; a client gets the dry-run list from
\* generate_all_commands of CommandGenerator.py, the call _dry_run makes.
C7_DryRunEqualsCreate ==
    /\ ( /\ IsGui /\ Called /\ dry_args # Absent
         /\ cp_args.project_config = dry_args.project_config
         /\ cp_args.enabled_packages = dry_args.enabled_packages )
       => [ i \in 1..Len(commands) |-> str(commands[i]) ] = dry_shown
    /\ ( /\ entry = "client" /\ Called /\ gen_out # <<>>
         /\ cp_args.generator = "CommandGenerator.py"
         /\ cp_args.project_config = gen_args.project_config
         /\ cp_args.enabled_packages = gen_args.enabled_packages )
       => commands = gen_out

\* C8: create_project returns True only if every command of the list was
\* launched, in order, none skipped, and every one exited with status 0.
C8_TrueOnlyIfAllSucceeded ==
    (Called /\ result = "True") =>
        /\ Len(commands) >= 1
        /\ launched = AllIndices(Len(commands))
        /\ Len(exits) = Len(commands)
        /\ \A i \in 1..Len(exits) : exits[i] = 0

C8_Witness ==
    /\ Called /\ result = "True"
    /\ Len(commands) = 2
    /\ Len(launched) = 2

\* the command at index k was the last to exit, with a non-zero status
FailedAt(k) == Len(exits) = k + 1 /\ exits[k + 1] # 0

\* C9: when the command at index k exits non-zero, create_project returns False,
\* the commands launched in that invocation are exactly those at 0..k, and the
\* effects of commands 0..k-1 stay on disk.
C9_StopsAtFirstFailure ==
    \A k \in 0..Len(commands) :
        (Called /\ FailedAt(k)) =>
            /\ result = "False"
            /\ cp_pc \in { "returned", "idle" }
            /\ launched = AllIndices(k + 1)
            /\ \A i \in 1..k : exits[i] = 0
            /\ Len(disk) >= k
            /\ SubSeq(disk, Len(disk) - k + 1, Len(disk)) = SubSeq(commands, 1, k)

C9_Witness ==
    /\ Called /\ FailedAt(1)
    /\ Len(commands) = 3
    /\ result = "False"
    /\ Len(disk) >= 1

\* C10: once the callback invoked before the command at step i has returned
\* False, neither that command nor a later one is launched, and create_project
\* returns False.
C10_CancelStops ==
    \A j \in 1..Len(cb_returns) :
        (cb_returns[j][2] = FALSE) =>
            /\ \A m \in 1..Len(launched) : launched[m] < cb_returns[j][1]
            /\ Returned => result = "False"

\* a message the callback got is a failure message: the "Error executing
\* command: ..." text of one of the commands
IsFailureMessage(m) ==
    \E c \in 1..Len(commands), p \in ProcOutcomes :
        m = ErrorMessage(commands[c], p.code)

FailureMessageCount ==
    Cardinality({ j \in 1..Len(messages) : IsFailureMessage(messages[j][2]) })

FirstCommandFailed == Called /\ Len(exits) >= 1 /\ exits[1] # 0

\* C11: when the first command of the list exits non-zero, the progress callback
\* of that invocation has received exactly one failure message, for step 0,
\* right after the "Executing: ..." message of that command.
C11_OneFailureMessage ==
    (FirstCommandFailed /\ cp_args.has_callback) =>
        /\ FailureMessageCount = 1
        /\ Len(messages) >= 2
        /\ messages[1] = << 0, "Executing: " \o str(commands[1]) >>
        /\ messages[2] = << 0, ErrorMessage(commands[1], exits[1]) >>

C11_Witness ==
    /\ FirstCommandFailed /\ cp_args.has_callback
    /\ Len(commands) = 2
    /\ Len(messages) = 4
    /\ FailureMessageCount = 1

\* C12: the commands of one invocation are launched one at a time in list order:
\* at most one launched command has not exited yet, the launches are the indices
\* 0, 1, 2, ... in that order, a command is launched only after all earlier ones
\* have exited with status 0, and the commands that ran to completion are the
\* list's own commands in the list's order.
C12_StrictlySequential ==
    Called =>
        /\ Len(launched) - Len(exits) \in { 0, 1 }
        /\ launched = AllIndices(Len(launched))
        /\ Len(launched) <= Len(commands)
        /\ \A j \in 2..Len(launched) : exits[j - 1] = 0
        /\ LET done == Cardinality({ j \in 1..Len(exits) : exits[j] = 0 })
           IN  /\ Len(disk) >= done
               /\ SubSeq(disk, Len(disk) - done + 1, Len(disk))
                    = SubSeq(commands, 1, done)

C12_Witness ==
    /\ Called /\ cp_pc = "running"
    /\ Len(commands) = 3
    /\ launched = << 0, 1, 2 >>
    /\ exits = << 0, 0 >>

\* C21: with a progress callback, every launched command has had its
\* "Executing: <command>" message delivered for its own index by the time it is
\* launched, that message is the first one of its step, and the messages arrive
\* in step order: none for step i comes after one for step i+1.
C21_ExecutingBeforeLaunch ==
    (Called /\ cp_args.has_callback) =>
        /\ \A j \in 1..Len(launched) :
              \E m \in 1..Len(messages) :
                 /\ messages[m] = << launched[j],
                                     "Executing: " \o str(commands[launched[j] + 1]) >>
                 /\ \A n \in 1..(m - 1) : messages[n][1] < launched[j]
        /\ \A m, n \in 1..Len(messages) :
              m < n => messages[m][1] <= messages[n][1]
        /\ Cardinality({ m \in 1..Len(messages) :
                            \E c \in 1..Len(commands) :
                               messages[m][2] = "Executing: " \o str(commands[c]) })
             \in { Len(launched), Len(launched) + 1 }

C21_Witness ==
    /\ Called /\ cp_args.has_callback
    /\ cp_pc = "running"
    /\ launched = << 0, 1 >>
    /\ messages[Len(messages)] = << 1, "Executing: " \o str(commands[2]) >>

\* the texts the callback got for step i, in order of arrival
TextsOfStep(i) ==
    LET of_step == SelectSeq(messages, LAMBDA m : m[1] = i)
    IN  [ n \in 1..Len(of_step) |-> of_step[n][2] ]

\* C22: with a progress callback, a command that exited with status 0 has had
\* its captured standard output forwarded for its step (also when it is empty),
\* followed by its captured standard error exactly when that is not empty, and
\* nothing else after the "Executing: ..." message of the step.
C22_OutputForwarded ==
    (Called /\ cp_args.has_callback) =>
        \A k \in 1..Len(exits) :
            (exits[k] = 0) =>
                TextsOfStep(k - 1) =
                    << "Executing: " \o str(commands[k]), captured[k].stdout >>
                      \o (IF captured[k].stderr # ""
                          THEN << captured[k].stderr >> ELSE <<>>)

\* one command exited 0 with output on both streams, the next with neither
C22_Witness ==
    /\ Called /\ cp_args.has_callback
    /\ exits = << 0, 0 >>
    /\ captured[1].stderr # "" /\ captured[2].stderr = ""
    /\ Len(TextsOfStep(0)) = 3 /\ Len(TextsOfStep(1)) = 2

\* C14: every invocation of create_project ends by returning True or False: no
\* exception reaches the caller, and a command that exits non-zero becomes a
\* False return (with one failure message when there is a callback).
C14_NoErrorPropagated ==
    /\ (Called /\ cp_pc \in { "idle", "returned" }) => Returned
    /\ \A k \in 0..Len(commands) :
          (Called /\ FailedAt(k)) =>
              /\ result = "False"
              /\ cp_args.has_callback => FailureMessageCount = 1

\* C20: within one invocation no command is launched twice, and every
\* invocation works on a freshly generated list from its command at index 0,
\* whatever the previous invocation did: the list is the generator's output for
\* this call's arguments, the loop starts at index 0, the first launch is index
\* 0, and no index occurs twice among the launches.
C20_NoRetryNoResume ==
    (Called /\ result # "TypeError") =>
        /\ commands = generate_all_commands_NV(cp_args.project_config,
                                               cp_args.enabled_packages)
        /\ (cp_pc = "callback" /\ launched = <<>>) => idx = 0
        /\ launched # <<>> => launched[1] = 0
        /\ \A i, j \in 1..Len(launched) : i # j => launched[i] # launched[j]
        /\ \A j \in 1..Len(launched) : launched[j] < Len(commands)
        /\ Len(exits) <= Len(launched)

\* a second invocation has just launched its command 0 after an earlier one had
\* completed two commands
C20_Witness ==
    /\ Called /\ runs = 2
    /\ cp_pc = "running"
    /\ launched = << 0 >>
    /\ Len(disk) >= 2

-----------------------------------------------------------------------------
(* Properties of the GUI handlers (checked under SpecGui) *)

\* C13: a dry run starts no process and changes no file: a _dry_run step leaves
\* the launch record, the exit statuses, the project directory, main.py,
\* pyproject.toml and the state of create_project as they were, as well as the
\* templates and the selections; without a project location it changes nothing
\* the user can observe; with one, main.py's handler leaves in the pane either
\* nothing (it raised after clearing) or exactly the header, one line per
\* generated command and the closing line, and NewVersion.py's handler appends
\* these lines to what the pane held.
C13_DryRunFrame ==
    [][ _dry_run =>
          /\ UNCHANGED <<launched, exits, disk, main_py, pyproject_toml>>
          /\ UNCHANGED <<cpVars, genVars>>
          /\ UNCHANGED <<app, template_data, project_location, checkboxes, extras_cb>>
          /\ (project_location = None)
                => UNCHANGED <<uv_output, slot_error, dry_args, dry_shown>>
          /\ (project_location # None /\ slot_error' # None)
                => /\ entry = "main.py" /\ uv_output' = <<>>
                   /\ UNCHANGED <<dry_args, dry_shown>>
          /\ (project_location # None /\ slot_error' = None)
                => /\ Len(dry_shown') >= 1
                   /\ uv_output' =
                        (IF entry = "main.py" THEN <<>> ELSE uv_output)
                          \o << "Dry run - Commands that would be executed:\n" >>
                          \o [ i \in 1..Len(dry_shown') |-> "  " \o dry_shown'[i] ]
                          \o << "\n" >>
      ]_vars

C13_Witness ==
    /\ IsGui /\ project_location # None
    /\ runs >= 1
    /\ Len(dry_shown) = 2
    /\ Len(uv_output) = 4
    /\ launched = <<>> /\ disk = <<>> /\ main_py = Absent

\* C16: the step of _create_project that follows the return of create_project:
\* after a True return, an existing <project_path>/main.py is executable, its
\* first line is the shebang line and the lines it had follow unchanged (a
\* missing file stays missing); after a False return the file is as it was.
C16_MainMadeRunnable ==
    [][ (IsGui /\ cp_pc = "returned" /\ cp_pc' = "idle") =>
          IF result = "True"
          THEN IF main_py = Absent
               THEN main_py' = Absent
               ELSE /\ main_py'.executable = TRUE
                    /\ Head(main_py'.content) = Shebang
                    /\ Tail(main_py'.content) = main_py.content
          ELSE main_py' = main_py
      ]_vars

C16_Witness ==
    /\ IsGui /\ cp_pc = "idle" /\ result = "True"
    /\ main_py # Absent
    /\ main_py.executable = TRUE
    /\ main_py.content = << Shebang, "def main(): ..." >>

\* number of shebang lines a file's text starts with, and the text after them
RECURSIVE LeadingShebangs(_)
LeadingShebangs(lines) ==
    IF lines # <<>> /\ Head(lines) = Shebang
    THEN 1 + LeadingShebangs(Tail(lines)) ELSE 0

AfterShebangs(lines) == SubSeq(lines, LeadingShebangs(lines) + 1, Len(lines))

\* C25: every application of the make-executable step to <project_path>/main.py
\* adds one shebang line in front, also when the file already starts with one,
\* and leaves the text after the shebang lines as it was: after n applications
\* the file starts with n shebang lines followed by the original text.
C25_ShebangAccumulates ==
    /\ [][ (IsGui /\ cp_pc = "returned" /\ cp_pc' = "idle"
             /\ result = "True" /\ main_py # Absent)
           => /\ LeadingShebangs(main_py'.content)
                   = LeadingShebangs(main_py.content) + 1
              /\ AfterShebangs(main_py'.content) = AfterShebangs(main_py.content)
         ]_vars
    /\ [](main_py # Absent
             => AfterShebangs(main_py.content) = << "def main(): ..." >>)

\* the step has been applied twice to the same file
C25_Witness ==
    /\ IsGui /\ cp_pc = "idle" /\ result = "True"
    /\ main_py # Absent
    /\ main_py.content = << Shebang, Shebang, "def main(): ..." >>

\* C26: main.py's create-project action with a location set calls
\* create_project, which runs its command sequence and returns; the text of the
\* TomlText editor is appended to pyproject.toml in the step that follows the
\* return, whether the return was True or False, and pyproject.toml is never
\* appended to at any other point.
C26_TomlAppendAfterReturn ==
    [][ /\ (_create_project /\ entry = "main.py" /\ project_location # None)
             => (slot_error' = None /\ cp_pc' = "callback")
        /\ (entry = "main.py" /\ cp_pc = "returned" /\ cp_pc' = "idle")
             => (Returned /\ pyproject_toml' = pyproject_toml \o TomlText)
        /\ (pyproject_toml' # pyproject_toml)
             => (cp_pc = "returned" /\ Returned)
      ]_vars

-----------------------------------------------------------------------------
(* Properties of startup (checked under SpecStartup) *)

\* C15: when PyProject.json is missing or is not valid JSON, load_json_config
\* raises, the exception ends startup (main() exits), and the application
\* never gets past load_json_config with an empty template set.
C15_ConfigErrorSurfaced ==
    (app.config_file # "ok" /\ app.pc \in { "exec", "running", "exited" }
       /\ Truthy(app.which_uv))
      => /\ app.pc = "exited"
         /\ app.error = ConfigError(app.config_file)

\* C23: a loaded configuration yields one template per key, under that key's
\* name, whatever optional fields are missing: no description gives an empty
\* description list, no extras an empty extras mapping and no pyproject extras,
\* no packages an empty package list, and a package entry of only name and
\* status gets version None.
C23_OptionalFieldsTolerated ==
    (IsGui /\ app.config_file = "ok" /\ app.pc \in { "exec", "running" }) =>
        /\ Len(template_data) = Len(app.raw)
        /\ \A i \in 1..Len(app.raw) :
              LET t == template_data[i]
                  d == app.raw[i].data
              IN  /\ t.name = app.raw[i].name
                  /\ ("description" \notin DOMAIN d) => t.description = <<>>
                  /\ ("extras" \notin DOMAIN d)
                        => (t.extras = <<>> /\ t.pyproject_extras = None)
                  /\ ("packages" \notin DOMAIN d) => t.packages = <<>>
                  /\ ("packages" \in DOMAIN d)
                        => /\ Len(t.packages) = Len(d.packages)
                           /\ \A j \in 1..Len(d.packages) :
                                 /\ t.packages[j].name = d.packages[j][1]
                                 /\ Len(d.packages[j]) = 2
                                       => t.packages[j].version = None

\* the check boxes as _setup_current_template(0) left them
DefaultSelection ==
    checkboxes = IF template_data = <<>> THEN <<>>
                 ELSE _generate_options(template_data[1])

\* token t is followed by token u somewhere in command c
Carries(c, t, u) == \E i \in 1..(Len(c) - 1) : c[i] = t /\ c[i + 1] = u

\* C18: with PyProject.json holding the template web (flask enabled >=2.0,
\* pytest disabled, no extras), name myapp, python 3.12 and location /tmp/proj,
\* a dry run with the selection untouched completes and shows exactly two
\* commands: an init command with --app, --python 3.12, --name myapp and the
\* path /tmp/proj/myapp last, then `add 'flask>=2.0' --project /tmp/proj/myapp`;
\* pytest occurs in neither.
C18_EndToEndWeb ==
    [][ ( /\ _dry_run /\ IsGui
          /\ app.raw = WebDoc
          /\ project_location = Location
          /\ DefaultSelection )
        => /\ slot_error' = None
           /\ dry_args' # Absent
           /\ LET cmds == IF entry = "main.py"
                          THEN generate_all_commands(dry_args'.project_config,
                                                     dry_args'.enabled_packages,
                                                     dry_args'.extras)
                          ELSE generate_all_commands_NV(dry_args'.project_config,
                                                        dry_args'.enabled_packages)
              IN  /\ dry_shown' = [ i \in 1..Len(cmds) |-> str(cmds[i]) ]
                  /\ Len(cmds) = 2
                  /\ IsInitCmd(cmds[1])
                  /\ \E i \in 1..Len(cmds[1]) : cmds[1][i] = "--app"
                  /\ Carries(cmds[1], "--python", "3.12")
                  /\ Carries(cmds[1], "--name", "myapp")
                  /\ cmds[1][Len(cmds[1])] = "/tmp/proj/myapp"
                  /\ cmds[2] = << uv_executable, "add", "'flask>=2.0'",
                                  "--project", "/tmp/proj/myapp" >>
                  /\ \A c \in 1..2 : \A i \in 1..Len(cmds[c]) :
                        cmds[c][i] \notin { "pytest", "'pytest'" }
      ]_vars

\* C19: when shutil.which("uv") finds nothing, startup ends in _find_tools with
\* RuntimeError: neither CommandGenerator nor ProjectManager is constructed, and
\* no command is generated, shown or launched; a CommandGenerator that exists
\* holds a tool path.
C19_ToolNotFoundIsFatal ==
    /\ (IsGui /\ ~Truthy(app.which_uv) /\ app.pc # "_find_tools")
         => /\ app.pc = "exited"
            /\ app.error = "RuntimeError"
            /\ app.command_generator = Absent
            /\ app.project_manager = Absent
            /\ dry_shown = <<>> /\ commands = <<>> /\ launched = <<>>
            /\ gen_out = <<>>
    /\ (app.command_generator # Absent)
         => Truthy(app.command_generator.uv_executable)

C19_Witness ==
    /\ IsGui /\ ~Truthy(app.which_uv)
    /\ app.pc = "exited"
    /\ app.error = "RuntimeError"

====
